---- MODULE Spec2Model ----
(***************************************************************************)
(* Route planning of gatsby-theme-try-ghost (gatsby-node.js): createPages  *)
(* turns the fetched content graph (pages, posts, tags, authors) and the   *)
(* theme options into the sequence of createPage calls.                    *)
(*                                                                         *)
(* Paths are sequences of path segments (<<>> is the root "/",             *)
(* <<"blog", "a">> is "/blog/a/").  Post nodes are objects shared by       *)
(* reference between data.posts, the collections and the residual lists,   *)
(* so they live in one heap (nodes) and every list is a list of post ids.  *)
(***************************************************************************)
EXTENDS Integers, Sequences, FiniteSets, TLC

(* ------------------------------ bounds --------------------------------- *)
MaxPages == 1
MaxPosts == 2
MaxTags == 2
MaxAuthors == 1
MaxCollections == 2
MaxCount == 2
MaxPerPage == 2

(* ------------------------- values of the program ----------------------- *)
\* JavaScript null for a string-valued field (primary_tag, primary_author)
Null == "null"
\* JavaScript null for postCount
NullCount == -1
\* a property that was never written (node.collectionPath, postIds[slug])
Undefined == <<"undefined">>
\* no url on the node
NoUrl == <<>>
\* slug argument left out of resolveUrl
NoSlug == ""
\* `/`
Root == <<>>

Slugs == {"a", "b"}
Urls == {NoUrl, <<"u">>}
BasePaths == {Root, <<"blog">>}
CollectionRoutes == <<<<"a">>, <<"f">>, <<"g">>, <<"h">>>>
NumStr == <<"1", "2", "3", "4", "5", "6", "7", "8", "9">>

(* ------------------------------ helpers -------------------------------- *)
RECURSIVE Flatten(_)
Flatten(ss) == IF ss = <<>> THEN <<>> ELSE Head(ss) \o Flatten(Tail(ss))

Range(s) == {s[j] : j \in 1..Len(s)}

SeqsUpTo(S, n) == UNION {[1..m -> S] : m \in 0..n}

(* ------------------- ./src/utils/routing : resolveUrl ------------------ *)
\* an override url wins and is composed under basePath; otherwise
\* basePath + collectionPath + slug; a missing collectionPath is `/`
resolveUrl(basePath, collectionPath, slug, url) ==
    LET coll == IF collectionPath = Undefined THEN Root ELSE collectionPath
    IN  IF url # NoUrl
        THEN basePath \o url
        ELSE basePath \o coll \o (IF slug = NoSlug THEN <<>> ELSE <<slug>>)

(* -------------------- ./src/utils/pagination : paginate ---------------- *)
numberOfPages(totalItems, itemsPerPage) ==
    IF totalItems = 0 THEN 1
    ELSE (totalItems + itemsPerPage - 1) \div itemsPerPage

\* pathPrefix of both callers: pageNumber === 0 ? url : `${url}page`
pathPrefix(url, pageNumber) ==
    IF pageNumber = 0 THEN url ELSE url \o <<"page">>

paginate(totalItems, itemsPerPage, component, url, context) ==
    [n \in 1..numberOfPages(totalItems, itemsPerPage) |->
        [path |-> IF n = 1 THEN pathPrefix(url, 0)
                  ELSE pathPrefix(url, n - 1) \o <<NumStr[n]>>,
         component |-> component,
         context |-> context @@ [pageNumber |-> n - 1,
                                 totalItems |-> totalItems,
                                 itemsPerPage |-> itemsPerPage]]]

(* ---------------- ./src/utils/infinite-scroll : infiniteScroll --------- *)
\* heap: post nodes, posts: list of post ids
infiniteScroll(enabled, heap, posts) ==
    IF ~enabled
    THEN [indexIds |-> <<>>,
          tagIds |-> [s \in {} |-> <<>>],
          authorIds |-> [s \in {} |-> <<>>]]
    ELSE [indexIds |-> posts,
          tagIds |-> [s \in Slugs |->
                         SelectSeq(posts, LAMBDA p : heap[p].primary_tag = s)],
          authorIds |-> [s \in Slugs |->
                         SelectSeq(posts, LAMBDA p : heap[p].primary_author = s)]]

\* postIds[node.slug]
Lookup(postIds, slug) ==
    IF slug \in DOMAIN postIds THEN postIds[slug] ELSE Undefined

(* ----------------------------- gatsby-node.js -------------------------- *)
createOrdinaryPages(basePath, pages) ==
    [j \in 1..Len(pages) |->
        [path |-> resolveUrl(basePath, Root, pages[j].slug, pages[j].url),
         component |-> "page",
         context |-> [slug |-> pages[j].slug]]]

\* posts.find(({ node }) => node.id === id).node.collectionPath, per id
getCollectionPaths(ids, heap) ==
    [id \in Range(ids) |-> heap[id].collectionPath]

\* _.find(tags, t => node.primary_tag && t.node.slug === node.primary_tag.slug)
\* as the index of the tag found, 0 for undefined
RECURSIVE findTag(_, _, _)
findTag(tags, node, k) ==
    IF k > Len(tags) THEN 0
    ELSE IF node.primary_tag # Null /\ tags[k].slug = node.primary_tag THEN k
    ELSE findTag(tags, node, k + 1)

\* variant: the count of the tag found is used without the test for null
primaryTagCountUnchecked(tags, node) ==
    LET t == findTag(tags, node, 1)
    IN  IF t # 0 THEN tags[t].postCount ELSE 0

primaryTagCountOf(tags, node) ==
    LET t == findTag(tags, node, 1)
    IN  IF t # 0 /\ tags[t].postCount # NullCount THEN tags[t].postCount ELSE 0

\* variant: the list of previous nodes lacks the leading empty node
prevNodesUnshifted(heap, posts) ==
    [j \in 1..Len(posts) |-> heap[posts[j]].slug]

\* _.concat([{ node: { slug: `` } }], _.dropRight(posts)), as slugs
prevNodes(heap, posts) ==
    <<"">> \o [j \in 1..(Len(posts) - 1) |-> heap[posts[j]].slug]

\* _.concat(_.drop(posts), [{ node: { slug: `` } }]), as slugs
nextNodes(heap, posts) ==
    [j \in 1..(Len(posts) - 1) |-> heap[posts[j + 1]].slug] \o <<"">>

createPostPages(basePath, heap, posts, tags) ==
    LET collectionPaths == getCollectionPaths(posts, heap)
    IN  [j \in 1..Len(posts) |->
          LET node == heap[posts[j]]
          IN  [path |-> resolveUrl(basePath, collectionPaths[node.id],
                                   node.slug, node.url),
               component |-> "post",
               context |-> [slug |-> node.slug,
                            prev |-> prevNodes(heap, posts)[j],
                            next |-> nextNodes(heap, posts)[j],
                            tag |-> IF node.primary_tag # Null
                                    THEN node.primary_tag ELSE "",
                            limit |-> 3,
                            skip |-> 0,
                            primaryTagCount |-> primaryTagCountOf(tags, node),
                            collectionPaths |-> collectionPaths]]]

\* collectionPathArg = Undefined takes the default parameter `/`
createIndexPage(opts, posts, postIds, collectionPathArg) ==
    LET collectionPath == IF collectionPathArg = Undefined THEN Root
                          ELSE collectionPathArg
    IN  paginate(Len(posts), opts.postsPerPage, "index",
                 resolveUrl(opts.basePath, collectionPath, NoSlug, NoUrl),
                 [collectionPath |-> collectionPath,
                  iScrollEnabled |-> opts.iScrollEnabled,
                  postIds |-> postIds,
                  cursor |-> 0])

\* variant: the index pages are created before the post pages
createCollectionIndexFirst(opts, heap, posts, allTags, collectionPath) ==
    createIndexPage(opts, posts,
                    infiniteScroll(opts.iScrollEnabled, heap, posts).indexIds,
                    collectionPath)
    \o createPostPages(opts.basePath, heap, posts, allTags)

createCollection(opts, heap, posts, allTags, collectionPath) ==
    createPostPages(opts.basePath, heap, posts, allTags)
    \o createIndexPage(opts, posts,
                       infiniteScroll(opts.iScrollEnabled, heap, posts).indexIds,
                       collectionPath)

\* selector(node): a selector is the set of post ids it accepts
selects(selector, node) == node.id \in selector

\* variant: the residual keeps the posts the selector accepted
residualUnfiltered(heap, posts, selector) == posts

residualOf(heap, posts, selector) ==
    SelectSeq(posts, LAMBDA p : ~selects(selector, heap[p]))

\* node.collectionPath = value, one assignment after the other
RECURSIVE assign(_, _)
assign(heap, written) ==
    IF written = <<>> THEN heap
    ELSE assign([heap EXCEPT ![Head(written).id].collectionPath = Head(written).value],
                Tail(written))

\* variant: the residual posts are not stamped with `/`
getCollectionUnstamped(heap, posts, collectionPath, selector) ==
    LET collection == SelectSeq(posts, LAMBDA p : selects(selector, heap[p]))
        written == [j \in 1..Len(collection) |->
                       [id |-> collection[j], value |-> collectionPath]]
    IN  [primary |-> collection,
         residual |-> residualOf(heap, posts, selector),
         written |-> written,
         heap |-> assign(heap, written)]

getCollection(heap, posts, collectionPath, selector) ==
    LET collection == SelectSeq(posts, LAMBDA p : selects(selector, heap[p]))
        residualPosts == residualOf(heap, posts, selector)
        written == [j \in 1..Len(collection) |->
                       [id |-> collection[j], value |-> collectionPath]]
                   \o [j \in 1..Len(residualPosts) |->
                       [id |-> residualPosts[j], value |-> Root]]
    IN  [primary |-> collection,
         residual |-> residualPosts,
         written |-> written,
         heap |-> assign(heap, written)]

\* data.tags.filter(({ node }) => node.postCount > 0)
postTaxonomy(taxonomy) ==
    SelectSeq(taxonomy, LAMBDA t : t.postCount # NullCount /\ t.postCount > 0)

\* the routes of one taxonomy node
taxonomyPagesOf(opts, node, postIds, component, heap) ==
    paginate(node.postCount, opts.postsPerPage, component,
             resolveUrl(opts.basePath, Root, node.slug, node.url),
             [slug |-> node.slug,
              collectionPaths |-> getCollectionPaths(Lookup(postIds, node.slug), heap),
              iScrollEnabled |-> opts.iScrollEnabled,
              postIds |-> Lookup(postIds, node.slug),
              cursor |-> 0])

\* ids.forEach of getCollectionPaths throws a TypeError on undefined ids
throwsAt(postIds, node) == node.slug \notin DOMAIN postIds

\* taxonomy.forEach: the routes created until the first node that throws
RECURSIVE createTaxonomyPages(_, _, _, _, _)
createTaxonomyPages(opts, taxonomy, postIds, component, heap) ==
    IF taxonomy = <<>> THEN [routes |-> <<>>, thrown |-> FALSE]
    ELSE IF throwsAt(postIds, Head(taxonomy))
    THEN [routes |-> <<>>, thrown |-> TRUE]
    ELSE LET rest == createTaxonomyPages(opts, Tail(taxonomy), postIds,
                                         component, heap)
         IN  [routes |-> taxonomyPagesOf(opts, Head(taxonomy), postIds,
                                         component, heap) \o rest.routes,
              thrown |-> rest.thrown]

(* ------------------------------- state --------------------------------- *)
VARIABLES
    themeOptions,    \* basePath, collections, iScrollEnabled, postsPerPage
    cms,             \* the content graph the query layer delivers
    errors,          \* result.errors of the fetch
    pc,              \* position of createPages
    nodes,           \* heap of the post nodes of data.posts
    collectionData,  \* posts of the current collectionData
    i,               \* index of the next configured collection
    routes,          \* the createPage calls so far
    handed,          \* the post lists handed to createCollection so far
    writes           \* per post, the values written to node.collectionPath

vars == <<themeOptions, cms, errors, pc, nodes, collectionData, i, routes,
          handed, writes>>

collections == themeOptions.collections
dataPosts == [j \in 1..Len(nodes) |-> j]

(* ------------------------------ inputs --------------------------------- *)
Counts == {NullCount} \cup 0..MaxCount

\* post lists of length n, the id of a post being its position in data.posts
PostLists(n, slugs, urls, tagSlugs, authorSlugs) ==
    {[j \in 1..n |-> [id |-> j, slug |-> f[j].slug, url |-> f[j].url,
                      primary_tag |-> f[j].primary_tag,
                      primary_author |-> f[j].primary_author,
                      collectionPath |-> Undefined]] :
        f \in [1..n -> [slug : slugs, url : urls, primary_tag : tagSlugs,
                        primary_author : authorSlugs]]}

\* lists of configured collections over n posts, collection c at its route
CollectionLists(n) ==
    UNION {{[c \in 1..m |-> [path |-> CollectionRoutes[c], selector |-> f[c]]] :
               f \in [1..m -> SUBSET (1..n)]} : m \in 0..MaxCollections}

Options(basePaths, colls, scroll, perPage) ==
    [basePath : basePaths, collections : colls,
     iScrollEnabled : scroll, postsPerPage : perPage]

Graphs(pages, posts, tags, authors) ==
    [pages : pages, posts : posts, tags : tags, authors : authors]

\* posts against configured collections
PartitionInputs ==
    UNION {Options({Root}, CollectionLists(n), {TRUE}, {MaxPerPage})
             \X Graphs({<<>>}, PostLists(n, Slugs, {NoUrl}, {Null}, {"a"}),
                       {<<>>}, {<<>>}) :
           n \in 0..MaxPosts}

\* primary tags of posts against the tag list
TagInputs ==
    UNION {Options({Root}, {<<>>}, BOOLEAN, {MaxPerPage})
             \X Graphs({<<>>}, PostLists(n, {"a"}, {NoUrl}, {Null, "a"}, {"a"}),
                       SeqsUpTo([slug : Slugs, url : {NoUrl},
                                 postCount : {NullCount, 0, MaxCount}], MaxTags),
                       {<<>>}) :
           n \in 0..MaxPosts}

\* pages next to one post, one tag, one author and at most one collection
PageInputs ==
    Options(BasePaths, {<<>>, <<[path |-> CollectionRoutes[1], selector |-> {1}]>>},
            {TRUE}, {1})
      \X Graphs(SeqsUpTo([slug : Slugs, url : Urls], MaxPages),
                PostLists(1, {"a"}, Urls, {"a"}, {"a"}),
                {<<[slug |-> "a", url |-> <<"tag", "a">>, postCount |-> 1]>>},
                {<<[slug |-> "a", url |-> NoUrl, postCount |-> 1]>>})

\* authors of every post count against the page size
AuthorInputs ==
    Options({Root}, {<<>>}, BOOLEAN, 1..MaxPerPage)
      \X Graphs({<<>>}, PostLists(1, {"a"}, {NoUrl}, {Null}, {"a"}), {<<>>},
                SeqsUpTo([slug : Slugs, url : {NoUrl}, postCount : Counts],
                         MaxAuthors))

Inputs == PartitionInputs \cup TagInputs \cup PageInputs \cup AuthorInputs

(* ------------------------------ actions -------------------------------- *)
Init ==
    /\ \E input \in Inputs : themeOptions = input[1] /\ cms = input[2]
    /\ errors = FALSE
    /\ pc = "start"
    /\ nodes = <<>>
    /\ collectionData = <<>>
    /\ i = 1
    /\ routes = <<>>
    /\ handed = <<>>
    /\ writes = <<>>

\* variant: the fetch result is used without the check for errors
afterFetchUnchecked(resultErrors) == "ordinary"

\* if (result.errors) throw new Error(result.errors)
afterFetch(resultErrors) == IF resultErrors THEN "aborted" ELSE "ordinary"

\* const result = await graphql(...); the check for errors; data = ...
Fetch ==
    /\ pc = "start"
    /\ \E resultErrors \in BOOLEAN :
          /\ errors' = resultErrors
          /\ pc' = afterFetch(resultErrors)
          /\ nodes' = IF afterFetch(resultErrors) = "aborted" THEN nodes ELSE cms.posts
          /\ writes' = IF afterFetch(resultErrors) = "aborted" THEN writes
                       ELSE [p \in 1..Len(cms.posts) |-> <<>>]
    /\ UNCHANGED <<themeOptions, cms, collectionData, i, routes, handed>>

\* createOrdinaryPages(...); let collectionData = data
OrdinaryPages ==
    /\ pc = "ordinary"
    /\ routes' = routes \o createOrdinaryPages(themeOptions.basePath, cms.pages)
    /\ collectionData' = dataPosts
    /\ i' = 1
    /\ pc' = "collections"
    /\ UNCHANGED <<themeOptions, cms, errors, nodes, handed, writes>>

\* one iteration of collections.forEach
CollectionStep ==
    /\ pc = "collections"
    /\ i <= Len(collections)
    /\ LET collection == collections[i]
           split == getCollection(nodes, collectionData, collection.path,
                                  collection.selector)
       IN  /\ nodes' = split.heap
           /\ routes' = routes \o createCollection(themeOptions, split.heap,
                                     split.primary, cms.tags, collection.path)
           /\ collectionData' = split.residual
           /\ handed' = Append(handed, split.primary)
           /\ writes' = [p \in DOMAIN writes |->
                           writes[p] \o [j \in 1..Len(SelectSeq(split.written, LAMBDA w : w.id = p)) |->
                                           SelectSeq(split.written, LAMBDA w : w.id = p)[j].value]]
    /\ i' = i + 1
    /\ UNCHANGED <<themeOptions, cms, errors, pc>>

\* createCollection(createOptions, collectionData, templates, data.tags)
DefaultCollection ==
    /\ pc = "collections"
    /\ i > Len(collections)
    /\ routes' = routes \o createCollection(themeOptions, nodes, collectionData,
                                            cms.tags, Undefined)
    /\ handed' = Append(handed, collectionData)
    /\ pc' = "tags"
    /\ UNCHANGED <<themeOptions, cms, errors, nodes, collectionData, i, writes>>

\* createTaxonomyPages(createOptions, postTags, tagIds, templates.tag, data.posts)
TagPages ==
    /\ pc = "tags"
    /\ LET ids == infiniteScroll(themeOptions.iScrollEnabled, nodes, dataPosts)
           made == createTaxonomyPages(themeOptions, postTaxonomy(cms.tags),
                                       ids.tagIds, "tag", nodes)
       IN  /\ routes' = routes \o made.routes
           /\ pc' = IF made.thrown THEN "failed" ELSE "authors"
    /\ UNCHANGED <<themeOptions, cms, errors, nodes, collectionData, i, handed, writes>>

\* createTaxonomyPages(createOptions, postAuthors, authorIds, templates.author, data.posts)
AuthorPages ==
    /\ pc = "authors"
    /\ LET ids == infiniteScroll(themeOptions.iScrollEnabled, nodes, dataPosts)
           made == createTaxonomyPages(themeOptions, postTaxonomy(cms.authors),
                                       ids.authorIds, "author", nodes)
       IN  /\ routes' = routes \o made.routes
           /\ pc' = IF made.thrown THEN "failed" ELSE "done"
    /\ UNCHANGED <<themeOptions, cms, errors, nodes, collectionData, i, handed, writes>>

Next ==
    \/ Fetch
    \/ OrdinaryPages
    \/ CollectionStep
    \/ DefaultCollection
    \/ TagPages
    \/ AuthorPages

Spec == Init /\ [][Next]_vars

TypeOK ==
    /\ pc \in {"start", "aborted", "ordinary", "collections", "tags", "authors",
               "done", "failed"}
    /\ errors \in BOOLEAN
    /\ i \in 1..(Len(collections) + 1)

(* --------------------- reference partition of the posts ---------------- *)
\* index of the first configured collection whose selector accepts post p,
\* 0 if none does
firstMatch(p) ==
    LET hits == {c \in 1..Len(collections) : p \in collections[c].selector}
    IN  IF hits = {} THEN 0 ELSE CHOOSE c \in hits : \A d \in hits : c <= d

\* the posts of collection c (0: the default collection), in input order
members(c) ==
    SelectSeq([j \in 1..Len(cms.posts) |-> j], LAMBDA p : firstMatch(p) = c)

firstMatchPath(p) ==
    IF firstMatch(p) = 0 THEN Root ELSE collections[firstMatch(p)].path

\* the posts in the order their routes are created
postOrder ==
    Flatten([c \in 1..Len(collections) |-> members(c)]) \o members(0)

positionIn(list, p) == CHOOSE j \in 1..Len(list) : list[j] = p

postRoutes == SelectSeq(routes, LAMBDA r : r.component = "post")

partitioned == pc \in {"tags", "authors", "done", "failed"}

IsPrefix(s, t) == Len(s) <= Len(t) /\ \A j \in 1..Len(s) : s[j] = t[j]

(* ------------------------------- claims -------------------------------- *)

\* C1: the post lists handed to createCollection are pairwise disjoint,
\* repeat no post, and once the default collection is built their union is
\* the whole post set, with one post route per post.
C1_PartitionCompleteExclusive ==
    /\ \A a \in 1..Len(handed) :
         /\ Cardinality(Range(handed[a])) = Len(handed[a])
         /\ \A b \in 1..Len(handed) :
              a # b => Range(handed[a]) \cap Range(handed[b]) = {}
    /\ partitioned =>
         /\ Len(handed) = Len(collections) + 1
         /\ UNION {Range(handed[a]) : a \in 1..Len(handed)} = 1..Len(cms.posts)
         /\ Len(postRoutes) = Len(cms.posts)

C1_Witness ==
    /\ pc = "done"
    /\ \E a, b \in 1..Len(handed) : a # b /\ handed[a] # <<>> /\ handed[b] # <<>>

\* C2: no two createPage calls of one run carry the same path.
C2_RoutePathsUnique ==
    \A a, b \in 1..Len(routes) : a # b => routes[a].path # routes[b].path

\* C3: when the fetch result carries errors, createPages aborts and the
\* createPage sink is never invoked.
C3_FetchErrorEmitsNothing ==
    errors => pc = "aborted" /\ routes = <<>>

C3_Witness ==
    /\ errors
    /\ pc = "aborted"
    /\ cms.pages # <<>>
    /\ cms.posts # <<>>

\* C4: the sink receives the ordinary pages, then per configured collection
\* (in configuration order, over the posts no earlier collection took) its
\* post routes and its index routes, then the default collection's, then the
\* tag routes, then the author routes, each group in input order.
label(r) == [component |-> r.component, path |-> r.path]

labels(rs) == [j \in 1..Len(rs) |-> label(rs[j])]

postLabels(c) ==
    [j \in 1..Len(members(c)) |->
        LET node == cms.posts[members(c)[j]]
        IN  [component |-> "post",
             path |-> resolveUrl(themeOptions.basePath, firstMatchPath(node.id),
                                 node.slug, node.url)]]

indexLabels(c) ==
    labels(paginate(Len(members(c)), themeOptions.postsPerPage, "index",
                    resolveUrl(themeOptions.basePath,
                               IF c = 0 THEN Root ELSE collections[c].path,
                               NoSlug, NoUrl),
                    [cursor |-> 0]))

taxonomyLabels(taxonomy, component) ==
    Flatten([j \in 1..Len(taxonomy) |->
        IF taxonomy[j].postCount # NullCount /\ taxonomy[j].postCount > 0
        THEN labels(paginate(taxonomy[j].postCount, themeOptions.postsPerPage,
                             component,
                             resolveUrl(themeOptions.basePath, Root,
                                        taxonomy[j].slug, taxonomy[j].url),
                             [cursor |-> 0]))
        ELSE <<>>])

plan ==
    labels(createOrdinaryPages(themeOptions.basePath, cms.pages))
    \o Flatten([c \in 1..Len(collections) |-> postLabels(c) \o indexLabels(c)])
    \o postLabels(0) \o indexLabels(0)
    \o taxonomyLabels(cms.tags, "tag")
    \o taxonomyLabels(cms.authors, "author")

C4_EmissionOrder ==
    /\ IsPrefix(labels(routes), plan)
    /\ pc = "done" => labels(routes) = plan

C4_Witness ==
    /\ pc = "done"
    /\ cms.pages # <<>>
    /\ collections # <<>>
    /\ members(1) # <<>>
    /\ \E t \in Range(cms.tags) : t.postCount > 0
    /\ \E t \in Range(cms.authors) : t.postCount > 0

\* C5: the collectionPath of a post in every collectionPaths map of a post
\* or taxonomy route is the path of the first configured collection whose
\* selector matches the post, or `/` when none matches, also when no
\* collection is configured.
C5_CollectionPathIsFirstMatch ==
    \A j \in 1..Len(routes) :
        routes[j].component \in {"post", "tag", "author"} =>
            \A id \in DOMAIN routes[j].context.collectionPaths :
                routes[j].context.collectionPaths[id] = firstMatchPath(id)

\* C6: once the fetch has succeeded, planning never fails.
C6_PlanningRunsToCompletion ==
    pc # "failed"

\* C7: the post route of the post at position k of a collection has prev =
\* slug of the collection's post at k-1 ("" for the first) and next = slug of
\* the collection's post at k+1 ("" for the last).
C7_PrevNextWithinCollection ==
    \A j \in 1..Len(postRoutes) :
        LET p == postOrder[j]
            list == members(firstMatch(p))
            k == positionIn(list, p)
        IN  /\ postRoutes[j].context.slug = cms.posts[p].slug
            /\ postRoutes[j].context.prev =
                 (IF k = 1 THEN "" ELSE cms.posts[list[k - 1]].slug)
            /\ postRoutes[j].context.next =
                 (IF k = Len(list) THEN "" ELSE cms.posts[list[k + 1]].slug)

C7_Witness ==
    /\ pc = "done"
    /\ Len(postRoutes) = 2
    /\ firstMatch(1) # firstMatch(2)
    /\ postRoutes[1].context.next = ""
    /\ postRoutes[2].context.prev = ""

\* C8: a tag or author with postCount 0 or null gets no route, one with
\* postCount > 0 gets exactly ceil(postCount / postsPerPage) routes.
ceilDiv(n, d) == CHOOSE q \in 0..n : q * d >= n /\ (q - 1) * d < n

RECURSIVE pagesDue(_, _)
pagesDue(taxonomy, slug) ==
    IF taxonomy = <<>> THEN 0
    ELSE pagesDue(Tail(taxonomy), slug)
         + (IF Head(taxonomy).slug = slug /\ Head(taxonomy).postCount # NullCount
               /\ Head(taxonomy).postCount > 0
            THEN ceilDiv(Head(taxonomy).postCount, themeOptions.postsPerPage)
            ELSE 0)

routesOf(component, slug) ==
    Len(SelectSeq(routes, LAMBDA r : r.component = component /\ r.context.slug = slug))

C8_TaxonomyRouteCount ==
    pc \in {"done", "failed"} =>
        \A slug \in Slugs :
            /\ routesOf("tag", slug) = pagesDue(cms.tags, slug)
            /\ routesOf("author", slug) = pagesDue(cms.authors, slug)

\* C9: when partitioning is over every post's collectionPath has been
\* written exactly once, and no other field of a post has changed.
C9_CollectionPathWrittenOnce ==
    /\ \A p \in DOMAIN writes : Len(writes[p]) <= 1
    /\ partitioned => \A p \in DOMAIN writes : Len(writes[p]) = 1
    /\ \A p \in DOMAIN nodes :
         [nodes[p] EXCEPT !.collectionPath = Undefined] = cms.posts[p]

\* C9 as amended: a post's collectionPath is written once in every
\* partitioning step that examines the post: `/` in each step whose selector
\* rejects it, the collection's path in the first step whose selector accepts
\* it, and never after that step (never at all when no collection is
\* configured); no other field of a post changes.
stepsExamining(p) ==
    IF firstMatch(p) = 0 THEN Len(collections) ELSE firstMatch(p)

C9_CollectionPathWrittenPerStep ==
    /\ \A p \in DOMAIN writes :
         LET done == IF i - 1 < stepsExamining(p) THEN i - 1 ELSE stepsExamining(p)
         IN  /\ writes[p] = [c \in 1..done |->
                               IF c = firstMatch(p) THEN collections[c].path ELSE Root]
             /\ nodes[p].collectionPath =
                  (IF writes[p] = <<>> THEN Undefined ELSE writes[p][Len(writes[p])])
    /\ \A p \in DOMAIN nodes :
         [nodes[p] EXCEPT !.collectionPath = Undefined] = cms.posts[p]

C9_Witness ==
    /\ pc = "done"
    /\ \E p \in DOMAIN writes : Len(writes[p]) = 2 /\ writes[p][1] # writes[p][2]

====
